---------------------------- MODULE Spec2Model ----------------------------
(***************************************************************************)
(* A model of the perpetual-market client of mango-explorer:               *)
(*   - PerpMarketInstructionBuilder and PerpMarketOperations               *)
(*     (src/mango/perpmarket.py): crank assembly, fail-fast builders;      *)
(*   - PerpMarket.on_event with the event-queue change tracker;            *)
(*   - PerpAccount valuation (src/mango/perpaccount.py).                   *)
(* Each component has its own specification over the shared variables.     *)
(***************************************************************************)
EXTENDS Integers, Sequences, FiniteSets, TLC

VARIABLES
    account_address,         \* PerpMarketInstructionBuilder.account.address
    underlying_perp_market,  \* PerpMarket.underlying_perp_market: "None" or "details"
    pending,                 \* the market's unprocessed events, oldest first
    cranker_limit,           \* the limit a periodic cranker passes to crank()
    lastCall,                \* the call whose outcome its caller is looking at
    event_queue,             \* the on-chain PerpEventQueue account (a ring buffer)
    history,                 \* every event ever appended to the queue, in order
    splitter,                \* on_event's UnseenPerpEventChangesTracker, once created
    lastUnseen,              \* what the latest splitter.unseen() call returned
    delivered,               \* the events on_event's handler was called with, in order
    filled,                  \* the events on_fill's handler was called with, in order
    perp_account,            \* a PerpAccount snapshot
    lot_size_converter,      \* its LotSizeConverter (lot size, base and quote decimals)
    perp_market_cache,       \* the PerpMarketCache handed to the valuation
    valuation,               \* the values worked out for one cache and price
    is_empty,                \* what PerpAccount.empty gave for the snapshot, once read
    funding_call,            \* the arguments of a FundingRate.from_stats_data call
    funding_rate,            \* what that call gave back
    chain_call,              \* the arguments of a RoundToLotSizeElement.process call
    chain_result             \* what that call gave back, and the orders as they are after it

crankVars == <<account_address, underlying_perp_market, pending, cranker_limit, lastCall>>

trackerVars == <<event_queue, history, splitter, lastUnseen, delivered, filled>>

valuationVars ==
    <<perp_account, lot_size_converter, perp_market_cache, valuation, is_empty>>

fundingVars == <<funding_call, funding_rate>>

chainVars == <<chain_call, chain_result>>

vars == <<crankVars, trackerVars, valuationVars, fundingVars, chainVars>>

notCrankVars == <<trackerVars, valuationVars, fundingVars, chainVars>>

notTrackerVars == <<crankVars, valuationVars, fundingVars, chainVars>>

(***************************************************************************)
(* Bounds of the model.                                                    *)
(***************************************************************************)
\* Longest address sequence handed directly to build_crank_instructions.
MaxAddresses == 4
\* Most events waiting in the market's event queue.
MaxPending == 2
\* Largest throttle limit tried (limits are tried in steps of one half).
MaxLimit == 3
\* Radix of the two "bytes" an address is encoded to.
ByteRadix == 3
\* Slots of the event queue's ring buffer.
Capacity == 2
\* Most events ever appended to the event queue.
MaxEvents == 5
\* Base and quote positions of a PerpAccount run from -MaxPosition to MaxPosition.
MaxPosition == 1
\* Funding accumulators and settled-funding checkpoints run from 0 to MaxFunding.
MaxFunding == 1
\* Token decimals run from 0 to MaxDecimals.
MaxDecimals == 1
\* Prices are 0..MaxPrice and 0.0..MaxPrice tenths.
MaxPrice == 2
\* Reserved sizes, taker fills and the raw accrual of a snapshot run from 0 to MaxQuantity.
MaxQuantity == 1
\* Most resting order slots of a PerpOpenOrders.
MaxOrders == 1
\* Digits after the point kept by a decimal division.
DivisionDigits == 2
\* Most orders handed to RoundToLotSizeElement.process.
MaxChainOrders == 2
\* Order prices run from 0 to MaxOrderSize, quantities from 0 to MaxOrderSize tenths.
MaxOrderSize == 3

(***************************************************************************)
(* Program constants.                                                      *)
(***************************************************************************)
\* limit: Decimal = Decimal(32) of build_crank_instructions, crank, _build_crank
DefaultCrankLimit == 32
\* crank_limit: Decimal = Decimal(5) of place_order
PlaceOrderCrankLimit == 5

(***************************************************************************)
(* Public keys.  A key is modelled by its numeric value; the sort key is    *)
(* its big-endian byte encoding, compared as Python compares lists.        *)
(***************************************************************************)
Addresses == {1, 3, 5, 6}

encode_public_key_for_sorting(address) ==
    <<address \div ByteRadix, address % ByteRadix>>

\* Python's list comparison k1 < k2 on encodings of equal length.
KeyLess(k1, k2) ==
    \E i \in 1..Len(k1) :
        /\ k1[i] < k2[i]
        /\ \A j \in 1..(i - 1) : k1[j] = k2[j]

(***************************************************************************)
(* Decimal limits.  A limit is held as a number of halves, so that          *)
(* int(limit) truncates and "len > limit" compares with the fraction.      *)
(***************************************************************************)
Decimal(n) == n * 2

int(limit) == limit \div 2

\* len(distinct_addresses) > limit
LenExceeds(len, limit) == len * 2 > limit

Limits == 0..Decimal(MaxLimit)

Min(a, b) == IF a < b THEN a ELSE b

(***************************************************************************)
(* Sequence helpers.                                                       *)
(***************************************************************************)
Range(s) == {s[i] : i \in 1..Len(s)}

SeqsUpTo(S, n) == UNION {[1..k -> S] : k \in 0..n}

\* Whether list[j] goes before list[i] in a stable sort by key.
SortsBefore(list, j, i) ==
    LET kj == encode_public_key_for_sorting(list[j])
        ki == encode_public_key_for_sorting(list[i])
    IN  KeyLess(kj, ki) \/ (kj = ki /\ j < i)

\* The sort forgotten: the list is left in insertion order.
SortedByKey_Unsorted(list) == list

\* limited_addresses.sort(key=encode_public_key_for_sorting): the stable sort
\* puts at place k the entry that k - 1 entries go before.
SortedByKey(list) ==
    [k \in 1..Len(list) |->
        list[CHOOSE i \in 1..Len(list) :
                 Cardinality({j \in 1..Len(list) : SortsBefore(list, j, i)}) = k - 1]]

(***************************************************************************)
(* CombinableInstructions: a sequence of instructions.                     *)
(***************************************************************************)
Instruction(name, accounts, limit) ==
    [name |-> name, accounts |-> accounts, limit |-> limit]

EmptyInstructions == <<>>

\* What a builder call gives back: it raised, or it returned instructions.
Raised == [raised |-> TRUE, warned |-> FALSE, instructions |-> EmptyInstructions]

Returned(instructions, warned) ==
    [raised |-> FALSE, warned |-> warned, instructions |-> instructions]

(***************************************************************************)
(* PerpMarketInstructionBuilder.build_crank_instructions                   *)
(***************************************************************************)
RECURSIVE DistinctFrom(_, _)
\* for address in addresses: if address not in distinct_addresses: += [address]
DistinctFrom(distinct, addresses) ==
    IF addresses = <<>> THEN distinct
    ELSE IF Head(addresses) \in Range(distinct)
         THEN DistinctFrom(distinct, Tail(addresses))
         ELSE DistinctFrom(Append(distinct, Head(addresses)), Tail(addresses))

distinct_addresses(self_address, addresses) ==
    DistinctFrom(<<self_address>>, addresses)

\* Sorting before truncating: the smallest addresses are kept.
limited_addresses_SortFirst(distinct, limit) ==
    SubSeq(SortedByKey(distinct), 1, Min(int(limit), Len(distinct)))

\* Truncating to the limit rounded up instead of int(limit).
limited_addresses_RoundUp(distinct, limit) ==
    SortedByKey(SubSeq(distinct, 1, Min((limit + 1) \div 2, Len(distinct))))

\* distinct_addresses[0 : min(int(limit), len(distinct_addresses))], then sorted
limited_addresses(distinct, limit) ==
    SortedByKey(SubSeq(distinct, 1, Min(int(limit), Len(distinct))))

\* (A set written {e(x) : x \in {v}} holds the one value e(v), with v worked
\* out once.)
build_crank_instructions(underlying, self_address, addresses, limit) ==
    IF underlying = "None" THEN Raised
    ELSE CHOOSE result \in
             {Returned(<<Instruction("consume_events",
                                     limited_addresses(distinct, limit), limit)>>,
                       LenExceeds(Len(distinct), limit)) :
                  distinct \in {distinct_addresses(self_address, addresses)}} : TRUE

(***************************************************************************)
(* The other builders of PerpMarketInstructionBuilder.                     *)
(***************************************************************************)
build_cancel_order_instructions(underlying) ==
    IF underlying = "None" THEN Raised
    ELSE Returned(<<Instruction("cancel_perp_order", <<>>, 0)>>, FALSE)

build_place_order_instructions(underlying) ==
    IF underlying = "None" THEN Raised
    ELSE Returned(<<Instruction("place_perp_order", <<>>, 0)>>, FALSE)

\* The check of underlying_perp_market left out.
build_cancel_all_orders_instructions_Unguarded(underlying, limit) ==
    Returned(<<Instruction("cancel_all_perp_orders", <<>>, limit)>>, FALSE)

build_cancel_all_orders_instructions(underlying, limit) ==
    IF underlying = "None" THEN Raised
    ELSE Returned(<<Instruction("cancel_all_perp_orders", <<>>, limit)>>, FALSE)

build_settle_instructions == Returned(EmptyInstructions, FALSE)

(***************************************************************************)
(* lastCall: the latest call, its inputs and what it gave back.            *)
(***************************************************************************)
Call(op, addresses, limit, add_self, built, result) ==
    [op |-> op, addresses |-> addresses, limit |-> limit, add_self |-> add_self,
     built |-> built, raised |-> result.raised, warned |-> result.warned,
     instructions |-> result.instructions]

NoCall == Call("none", <<>>, 0, FALSE, FALSE, Returned(EmptyInstructions, FALSE))

\* The address list of the consume-events instruction of a call, if it has one.
HasCrank(call) ==
    \E i \in 1..Len(call.instructions) : call.instructions[i].name = "consume_events"

CrankList(call) ==
    LET i == CHOOSE i \in 1..Len(call.instructions) :
                 call.instructions[i].name = "consume_events"
    IN  call.instructions[i].accounts

(***************************************************************************)
(* decimal.Decimal, exactly: [m, e] stands for m / 10^e, kept with the      *)
(* smallest e, so that equal numbers are equal records.                    *)
(***************************************************************************)
RECURSIVE Pow10(_)
Pow10(n) == IF n = 0 THEN 1 ELSE 10 * Pow10(n - 1)

RECURSIVE Norm(_)
Norm(d) ==
    IF d.m = 0 THEN [m |-> 0, e |-> 0]
    ELSE IF d.e > 0 /\ d.m % 10 = 0 THEN Norm([m |-> d.m \div 10, e |-> d.e - 1])
    ELSE d

Dec(m, e) == Norm([m |-> m, e |-> e])

DAdd(a, b) ==
    IF a.e >= b.e
    THEN Norm([m |-> a.m + b.m * Pow10(a.e - b.e), e |-> a.e])
    ELSE Norm([m |-> a.m * Pow10(b.e - a.e) + b.m, e |-> b.e])

DMul(a, b) == Norm([m |-> a.m * b.m, e |-> a.e + b.e])

DNeg(a) == [m |-> 0 - a.m, e |-> a.e]

DSub(a, b) == DAdd(a, DNeg(b))

\* a * 10^k, for any integer k.
DScale10(a, k) ==
    IF k >= 0 THEN Norm([m |-> a.m * Pow10(k), e |-> a.e])
    ELSE Norm([m |-> a.m, e |-> a.e - k])

Zero == Dec(0, 0)

\* Token.shift_to_decimals: a native amount as a number of whole tokens.
shift_to_decimals(decimals, value) == DScale10(value, 0 - decimals)

\* LotSizeConverter.adjust_to_quote_decimals
adjust_to_quote_decimals(converter, value) ==
    DScale10(value, converter.base_decimals - converter.quote_decimals)

(***************************************************************************)
(* PerpAccount valuation.                                                  *)
(***************************************************************************)
\* The accumulator difference is not multiplied by the position.
unsettled_funding_PerUnit(account, converter, cache) ==
    DNeg(shift_to_decimals(converter.quote_decimals,
                           DSub(cache.long_funding, account.long_settled_funding)))

\* The long accumulator is used whatever the sign of the position.
unsettled_funding_LongOnly(account, converter, cache) ==
    DNeg(shift_to_decimals(converter.quote_decimals,
                           DMul(account.base_position,
                                DSub(cache.long_funding, account.long_settled_funding))))

unsettled_funding(account, converter, cache) ==
    LET unsettled ==
            IF account.base_position.m < 0
            THEN DMul(account.base_position,
                      DSub(cache.short_funding, account.short_settled_funding))
            ELSE DMul(account.base_position,
                      DSub(cache.long_funding, account.long_settled_funding))
    IN  DNeg(shift_to_decimals(converter.quote_decimals, unsettled))

\* quote_position shifted to decimals, plus the unsettled funding
QuoteWithFunding(account, converter, cache) ==
    DAdd(shift_to_decimals(converter.quote_decimals, account.quote_position),
         unsettled_funding(account, converter, cache))

\* base_position * self.lot_size_converter.base_lot_size * price
BaseNotional(account, converter, price) ==
    DMul(DMul(adjust_to_quote_decimals(converter, account.base_position),
              converter.base_lot_size), price)

\* Both terms are counted whatever their sign.
asset_value_Ungated(account, converter, cache, price) ==
    DAdd(shift_to_decimals(converter.quote_decimals, BaseNotional(account, converter, price)),
         QuoteWithFunding(account, converter, cache))

asset_value(account, converter, cache, price) ==
    LET base_position == adjust_to_quote_decimals(converter, account.base_position)
        value == IF base_position.m > 0
                 THEN shift_to_decimals(converter.quote_decimals,
                                        BaseNotional(account, converter, price))
                 ELSE Zero
        quote_position == QuoteWithFunding(account, converter, cache)
    IN  IF quote_position.m > 0 THEN DAdd(value, quote_position) ELSE value

\* The quote balance is counted when it is a credit.
liability_value_CountsCredit(account, converter, cache, price) ==
    LET base_position == adjust_to_quote_decimals(converter, account.base_position)
        value == IF base_position.m < 0
                 THEN shift_to_decimals(converter.quote_decimals,
                                        BaseNotional(account, converter, price))
                 ELSE Zero
        quote_position == QuoteWithFunding(account, converter, cache)
    IN  IF quote_position.m > 0 THEN DAdd(value, quote_position) ELSE value

liability_value(account, converter, cache, price) ==
    LET base_position == adjust_to_quote_decimals(converter, account.base_position)
        value == IF base_position.m < 0
                 THEN shift_to_decimals(converter.quote_decimals,
                                        BaseNotional(account, converter, price))
                 ELSE Zero
        quote_position == QuoteWithFunding(account, converter, cache)
    IN  IF quote_position.m < 0 THEN DAdd(value, quote_position) ELSE value

current_value(account, converter, cache, price) ==
    LET value == DAdd(BaseNotional(account, converter, price),
                      QuoteWithFunding(account, converter, cache))
    IN  shift_to_decimals(converter.quote_decimals, value)

(***************************************************************************)
(* The snapshots, caches and prices a valuation is made of.                *)
(***************************************************************************)
Positions == {Dec(n, 0) : n \in (0 - MaxPosition)..MaxPosition}

Fundings == {Dec(n, 0) : n \in 0..MaxFunding}

TokenDecimals == 0..MaxDecimals

BaseLotSizes == {Dec(1, 0), Dec(10, 0)}

Prices == {Dec(n, e) : n \in 0..MaxPrice, e \in {0, 1}}

Quantities == {Dec(n, 0) : n \in 0..MaxQuantity}

\* PerpOpenOrders: the client ids of the resting orders.
PerpOpenOrders(placed_orders) == [placed_orders |-> placed_orders]

OpenOrders == {PerpOpenOrders(placed) : placed \in SeqsUpTo({1}, MaxOrders)}

\* PerpOpenOrders.empty
open_orders_empty(open_orders) == Len(open_orders.placed_orders) = 0

\* The decoded account buffer.
Layouts ==
    [base_position : Positions, quote_position : Positions,
     long_settled_funding : Fundings, short_settled_funding : Fundings,
     bids_quantity : Quantities, asks_quantity : Quantities,
     taker_base : Quantities, taker_quote : Quantities, mngo_accrued : Quantities]

\* The layouts with nothing reserved, nothing taken and nothing accrued.
IdleLayouts ==
    {layout \in Layouts :
        /\ layout.bids_quantity = Zero /\ layout.asks_quantity = Zero
        /\ layout.taker_base = Zero /\ layout.taker_quote = Zero
        /\ layout.mngo_accrued = Zero}

InstrumentValue(token_decimals, value) == [token_decimals |-> token_decimals, value |-> value]

from_layout(layout, open_orders, converter, mngo_decimals) ==
    [base_position |-> layout.base_position,
     quote_position |-> layout.quote_position,
     long_settled_funding |-> layout.long_settled_funding,
     short_settled_funding |-> layout.short_settled_funding,
     bids_quantity |-> layout.bids_quantity,
     asks_quantity |-> layout.asks_quantity,
     taker_base |-> layout.taker_base,
     taker_quote |-> layout.taker_quote,
     mngo_accrued |->
         InstrumentValue(mngo_decimals, shift_to_decimals(mngo_decimals, layout.mngo_accrued)),
     open_orders |-> open_orders,
     base_token_value |->
         InstrumentValue(converter.base_decimals,
             shift_to_decimals(converter.base_decimals,
                 DMul(DAdd(layout.base_position, layout.taker_base),
                      converter.base_lot_size))),
     quote_position_raw |-> shift_to_decimals(converter.quote_decimals, layout.quote_position)]

\* The accrual is not looked at.
empty_SkipsAccrual(account) ==
    /\ account.base_position = Zero
    /\ account.quote_position = Zero
    /\ account.long_settled_funding = Zero
    /\ account.short_settled_funding = Zero
    /\ open_orders_empty(account.open_orders)

\* Pending taker fills and reserved order sizes are looked at as well.
empty_ChecksReserved(account) ==
    /\ account.base_position = Zero
    /\ account.quote_position = Zero
    /\ account.long_settled_funding = Zero
    /\ account.short_settled_funding = Zero
    /\ account.bids_quantity = Zero
    /\ account.asks_quantity = Zero
    /\ account.taker_base = Zero
    /\ account.taker_quote = Zero
    /\ account.mngo_accrued.value = Zero
    /\ open_orders_empty(account.open_orders)

\* PerpAccount.empty
empty(account) ==
    /\ account.base_position = Zero
    /\ account.quote_position = Zero
    /\ account.long_settled_funding = Zero
    /\ account.short_settled_funding = Zero
    /\ account.mngo_accrued.value = Zero
    /\ open_orders_empty(account.open_orders)

\* The snapshots of a converter's market that have only positions and settled funding.
PerpAccounts(converter) ==
    {from_layout(layout, PerpOpenOrders(<<>>), converter, 0) : layout \in IdleLayouts}

Converters ==
    [base_lot_size : BaseLotSizes, base_decimals : TokenDecimals,
     quote_decimals : TokenDecimals]

UnitConverter == [base_lot_size |-> Dec(1, 0), base_decimals |-> 0, quote_decimals |-> 0]

ZeroLayout ==
    [base_position |-> Zero, quote_position |-> Zero, long_settled_funding |-> Zero,
     short_settled_funding |-> Zero, bids_quantity |-> Zero, asks_quantity |-> Zero,
     taker_base |-> Zero, taker_quote |-> Zero, mngo_accrued |-> Zero]

NotValued ==
    [done |-> FALSE, price |-> Zero, unsettled_funding |-> Zero, asset_value |-> Zero,
     liability_value |-> Zero, current_value |-> Zero]

\* The specifications that value no account hold these still.
NoPerpAccount ==
    /\ perp_account = from_layout(ZeroLayout, PerpOpenOrders(<<>>), UnitConverter, 0)
    /\ lot_size_converter = UnitConverter
    /\ perp_market_cache = [long_funding |-> Zero, short_funding |-> Zero]
    /\ valuation = NotValued
    /\ is_empty = [read |-> FALSE, value |-> FALSE]

(***************************************************************************)
(* decimal.Decimal division: the quotient is rounded half-even to          *)
(* DivisionDigits digits after the point of the mantissas' quotient.       *)
(***************************************************************************)
Abs(n) == IF n < 0 THEN 0 - n ELSE n

RoundHalfEven(n, d) ==
    LET q == n \div d
        r == n % d
    IN  IF 2 * r > d \/ (2 * r = d /\ q % 2 = 1) THEN q + 1 ELSE q

\* a / b for b # 0
DDiv(a, b) ==
    LET q == RoundHalfEven(Abs(a.m) * Pow10(DivisionDigits), Abs(b.m))
        sign == IF (a.m < 0) = (b.m < 0) THEN 1 ELSE 0 - 1
    IN  DScale10(Norm([m |-> sign * q, e |-> DivisionDigits]), b.e - a.e)

Two == Dec(2, 0)

(***************************************************************************)
(* FundingRate.from_stats_data                                             *)
(***************************************************************************)
\* LotSizeConverter.base_size_lots_to_number
base_size_lots_to_number(converter, size) ==
    shift_to_decimals(converter.base_decimals, DMul(size, converter.base_lot_size))

\* parser.parse(stats["time"]).replace(microsecond=0)
ReplaceMicrosecond(time) == [time EXCEPT !.microsecond = 0]

\* The long accumulator alone stands for the start.
start_funding_LongOnly(oldest_stats) == oldest_stats.longFunding

start_funding(oldest_stats) ==
    DDiv(DAdd(oldest_stats.longFunding, oldest_stats.shortFunding), Two)

end_funding(newest_stats) ==
    DDiv(DAdd(newest_stats.longFunding, newest_stats.shortFunding), Two)

NoRate ==
    [status |-> "none", rate |-> Zero, oracle_price |-> Zero, open_interest |-> Zero,
     from_ |-> [seconds |-> 0, microsecond |-> 0], to |-> [seconds |-> 0, microsecond |-> 0]]

from_stats_data(converter, oldest_stats, newest_stats) ==
    LET open_interest ==
            DDiv(base_size_lots_to_number(converter, newest_stats.openInterest), Two)
        average_oracle_price == newest_stats.baseOraclePrice
        funding_difference == DSub(end_funding(newest_stats), start_funding(oldest_stats))
        funding_in_quote_decimals ==
            shift_to_decimals(converter.quote_decimals, funding_difference)
        base_price_in_base_lots == DMul(average_oracle_price, converter.lot_size)
    IN  IF base_price_in_base_lots = Zero
        THEN [NoRate EXCEPT !.status = "raised"]
        ELSE [status |-> "returned",
              rate |-> DDiv(funding_in_quote_decimals, base_price_in_base_lots),
              oracle_price |-> average_oracle_price,
              open_interest |-> open_interest,
              from_ |-> ReplaceMicrosecond(oldest_stats.time),
              to |-> ReplaceMicrosecond(newest_stats.time)]

LotSizes == {Dec(n, e) : n \in 0..1, e \in 0..1}

FundingConverters ==
    {[base_lot_size |-> converter.base_lot_size, base_decimals |-> converter.base_decimals,
      quote_decimals |-> converter.quote_decimals, lot_size |-> lot_size] :
        converter \in {c \in Converters : c.base_lot_size = Dec(10, 0) /\ c.base_decimals = 1},
        lot_size \in LotSizes}

OldestStats ==
    [shortFunding : Fundings, longFunding : Fundings, baseOraclePrice : Prices,
     time : {[seconds |-> 1, microsecond |-> 1]}]

NewestStats ==
    [shortFunding : Fundings, longFunding : Fundings, baseOraclePrice : Prices,
     time : {[seconds |-> 2, microsecond |-> 1]}, openInterest : Quantities]

\* The specifications that work out no funding rate hold these still.
NoFundingCall ==
    /\ funding_call =
           [lot_size_converter |->
                [base_lot_size |-> Dec(1, 0), base_decimals |-> 0, quote_decimals |-> 0,
                 lot_size |-> Dec(1, 0)],
            oldest_stats |->
                [shortFunding |-> Zero, longFunding |-> Zero, baseOraclePrice |-> Zero,
                 time |-> [seconds |-> 1, microsecond |-> 1]],
            newest_stats |->
                [shortFunding |-> Zero, longFunding |-> Zero, baseOraclePrice |-> Zero,
                 time |-> [seconds |-> 2, microsecond |-> 1], openInterest |-> Zero]]
    /\ funding_rate = NoRate

(***************************************************************************)
(* LotSizeConverter rounding and RoundToLotSizeElement.process             *)
(***************************************************************************)
\* The smallest quantity step: one base lot in whole base tokens.
base_step(converter) == shift_to_decimals(converter.base_decimals, converter.base_lot_size)

\* LotSizeConverter.tick_size: the smallest price step,
\* quote_lot_size * 10^base decimals / (base_lot_size * 10^quote decimals).
tick_size(converter) ==
    DDiv(DScale10(converter.quote_lot_size, converter.base_decimals),
         DScale10(converter.base_lot_size, converter.quote_decimals))

\* The smallest multiple of step that is >= value.
FloorToStep_Up(value, step) ==
    IF value.e >= step.e
    THEN Norm([m |-> (0 - ((0 - value.m) \div (step.m * Pow10(value.e - step.e))))
                         * (step.m * Pow10(value.e - step.e)),
               e |-> value.e])
    ELSE Norm([m |-> (0 - ((0 - value.m * Pow10(step.e - value.e)) \div step.m)) * step.m,
               e |-> step.e])

\* The largest multiple of step that is <= value, for value >= 0.
FloorToStep(value, step) ==
    IF value.e >= step.e
    THEN Norm([m |-> (value.m \div (step.m * Pow10(value.e - step.e)))
                         * (step.m * Pow10(value.e - step.e)),
               e |-> value.e])
    ELSE Norm([m |-> ((value.m * Pow10(step.e - value.e)) \div step.m) * step.m,
               e |-> step.e])

\* LotSizeConverter.round_base
round_base(converter, quantity) == FloorToStep(quantity, base_step(converter))

\* LotSizeConverter.round_quote
round_quote(converter, price) == FloorToStep(price, tick_size(converter))

Order(id, price, quantity) == [id |-> id, price |-> price, quantity |-> quantity]

\* Order.with_update(price=...), Order.with_update(quantity=...): a modified copy
with_update_price(order, price) == [order EXCEPT !.price = price]

with_update_quantity(order, quantity) == [order EXCEPT !.quantity = quantity]

RECURSIVE ProcessFrom(_, _, _, _)
\* for order in orders: ...
ProcessFrom(converter, orders, i, new_orders) ==
    IF i > Len(orders) THEN new_orders
    ELSE LET order == orders[i]
             new_price == round_quote(converter, order.price)
             new_quantity == round_base(converter, order.quantity)
             new_order == with_update_quantity(with_update_price(order, new_price),
                                               new_quantity)
         IN  IF new_order.price = Zero \/ new_order.quantity = Zero
             THEN ProcessFrom(converter, orders, i + 1, new_orders)
             ELSE IF order.price # new_order.price \/ order.quantity # new_order.quantity
             THEN ProcessFrom(converter, orders, i + 1, new_orders \o <<new_order>>)
             ELSE ProcessFrom(converter, orders, i + 1, new_orders \o <<order>>)

\* An order is dropped only when both price and quantity round to zero.
process_KeepsHalfZero(converter, orders) ==
    SelectSeq([i \in 1..Len(orders) |->
                  with_update_quantity(
                      with_update_price(orders[i], round_quote(converter, orders[i].price)),
                      round_base(converter, orders[i].quantity))],
              LAMBDA order : order.price # Zero \/ order.quantity # Zero)

\* RoundToLotSizeElement.process
process(converter, orders) == ProcessFrom(converter, orders, 1, <<>>)

OrderPrices == {Dec(n, 0) : n \in 0..MaxOrderSize}

OrderQuantities == {Dec(n, 1) : n \in 0..MaxOrderSize}

\* The order lists: the i-th order has client id i.
OrderLists ==
    UNION {{[i \in 1..n |-> Order(i, prices[i], quantities[i])] :
               prices \in [1..n -> OrderPrices], quantities \in [1..n -> OrderQuantities]} :
           n \in 0..MaxChainOrders}

ChainConverters ==
    [base_lot_size : {Dec(1, 0), Dec(2, 0)}, quote_lot_size : {Dec(1, 0), Dec(4, 0)},
     base_decimals : {1}, quote_decimals : {1}]

NotProcessed == [done |-> FALSE, new_orders |-> <<>>, orders |-> <<>>]

\* The specifications that round no orders hold these still.
NoChainCall ==
    /\ chain_call =
           [lot_size_converter |->
                [base_lot_size |-> Dec(1, 0), quote_lot_size |-> Dec(1, 0),
                 base_decimals |-> 1, quote_decimals |-> 1],
            orders |-> <<>>]
    /\ chain_result = NotProcessed

(***************************************************************************)
(* PerpEventQueue: a ring buffer of Capacity slots.  head is the slot of    *)
(* the oldest unprocessed event, count the number of unprocessed events,   *)
(* sequence_number the number of events ever appended.                     *)
(***************************************************************************)
NoEvent == [kind |-> "none", seq_num |-> 0]

EventKinds == {"fill", "out"}

EmptyQueue ==
    [slots |-> [i \in 0..(Capacity - 1) |-> NoEvent],
     head |-> 0, count |-> 0, sequence_number |-> 0]

\* The program appends at (head + count) mod capacity; a full queue takes no more.
PushBack(queue, kind) ==
    [queue EXCEPT
        !.slots[(queue.head + queue.count) % Capacity] =
            [kind |-> kind, seq_num |-> queue.sequence_number + 1],
        !.count = @ + 1,
        !.sequence_number = @ + 1]

\* consume-events retires the oldest event; its slot keeps the processed event.
PopFront(queue) ==
    [queue EXCEPT !.head = (@ + 1) % Capacity, !.count = @ - 1]

(***************************************************************************)
(* UnseenPerpEventChangesTracker: keeps the snapshot it last reported;      *)
(* unseen(fresh) gives the events appended since, found by sequence number *)
(* modulo capacity, oldest first, as far as they are still in the buffer.  *)
(***************************************************************************)
UnseenPerpEventChangesTracker(initial) == [last |-> initial]

\* The slot of the n-th event ever appended.
SlotOf(n) == (n - 1) % Capacity

Max(a, b) == IF a > b THEN a ELSE b

\* The sequence numbers not yet reported that the buffer still holds.
UnseenFrom(last, fresh) ==
    Max(last.sequence_number, fresh.sequence_number - Capacity) + 1

\* Every sequence number since the last report is looked up, evicted or not.
unseen_NoGapCheck(tracker, fresh) ==
    [k \in 1..(fresh.sequence_number - tracker.last.sequence_number) |->
        fresh.slots[SlotOf(tracker.last.sequence_number + k)]]

unseen(tracker, fresh) ==
    [k \in 1..(fresh.sequence_number - UnseenFrom(tracker.last, fresh) + 1) |->
        fresh.slots[SlotOf(UnseenFrom(tracker.last, fresh) + k - 1)]]

(***************************************************************************)
(* PerpMarket.on_event: load the queue, create the tracker from it, and     *)
(* hand every event of every later snapshot's unseen() to the handler.     *)
(***************************************************************************)
\* Only the first event of each batch reaches the handler.
flat_map_FirstOnly(log, batch) ==
    IF batch = <<>> THEN log ELSE Append(log, batch[1])

\* publisher.pipe(flat_map(splitter.unseen)).subscribe(on_next=handler)
flat_map(log, batch) == log \o batch

\* Every item is handed on, whatever its kind.
_fill_filter_PassesAll(log, item) == Append(log, item)

\* if isinstance(item, PerpFillEvent): handler(item)
_fill_filter(log, item) == IF item.kind = "fill" THEN Append(log, item) ELSE log

RECURSIVE FillFilterEach(_, _)
\* on_next=_fill_filter, once for each event of the batch
FillFilterEach(log, batch) ==
    IF batch = <<>> THEN log
    ELSE FillFilterEach(_fill_filter(log, Head(batch)), Tail(batch))

\* advance: by how much the sequence number had moved at the latest call;
\* max_advance: the most it ever moved between two calls.
NoUnseen == [advance |-> 0, max_advance |-> 0, events |-> <<>>]

NoSubscription ==
    /\ event_queue = EmptyQueue
    /\ history = <<>>
    /\ splitter = [created |-> FALSE, baseline |-> 0, handler |-> "none",
                   tracker |-> [last |-> EmptyQueue]]
    /\ lastUnseen = NoUnseen
    /\ delivered = <<>>
    /\ filled = <<>>

InitTracker ==
    /\ account_address = 1
    /\ underlying_perp_market = "details"
    /\ pending = <<>>
    /\ cranker_limit = 0
    /\ lastCall = NoCall
    /\ NoSubscription
    /\ NoPerpAccount
    /\ NoFundingCall
    /\ NoChainCall

\* A trade or a cancellation on chain appends an event.
PushEvent ==
    /\ event_queue.count < Capacity
    /\ event_queue.sequence_number < MaxEvents
    /\ \E kind \in EventKinds :
           /\ event_queue' = PushBack(event_queue, kind)
           /\ history' = Append(history, [kind |-> kind,
                                          seq_num |-> event_queue.sequence_number + 1])
    /\ UNCHANGED <<splitter, lastUnseen, delivered, filled, notTrackerVars>>

\* Somebody's crank retires the oldest event on chain.
ConsumeEvent ==
    /\ event_queue.count > 0
    /\ event_queue' = PopFront(event_queue)
    /\ UNCHANGED <<history, splitter, lastUnseen, delivered, filled, notTrackerVars>>

\* on_event(context, handler), for the caller's handler or on_fill's _fill_filter
Subscribe(handler) ==
    /\ ~splitter.created
    /\ splitter' = [created |-> TRUE, baseline |-> event_queue.sequence_number,
                    handler |-> handler,
                    tracker |-> UnseenPerpEventChangesTracker(event_queue)]
    /\ UNCHANGED <<event_queue, history, lastUnseen, delivered, filled, notTrackerVars>>

on_event == Subscribe("handler")

\* return self.on_event(context, _fill_filter)
on_fill == Subscribe("_fill_filter")

\* The subscription delivers the account as it is now.
Notify ==
    /\ splitter.created
    /\ event_queue # splitter.tracker.last
    /\ \E batch \in {unseen(splitter.tracker, event_queue)},
          advance \in {event_queue.sequence_number
                          - splitter.tracker.last.sequence_number} :
           /\ lastUnseen' = [advance |-> advance,
                             max_advance |-> Max(lastUnseen.max_advance, advance),
                             events |-> batch]
           /\ delivered' = flat_map(delivered, batch)
           /\ filled' = IF splitter.handler = "_fill_filter"
                        THEN FillFilterEach(filled, batch)
                        ELSE filled
    /\ splitter' = [splitter EXCEPT !.tracker = UnseenPerpEventChangesTracker(event_queue)]
    /\ UNCHANGED <<event_queue, history, notTrackerVars>>

NextTracker ==
    \/ PushEvent
    \/ ConsumeEvent
    \/ on_event
    \/ on_fill
    \/ Notify

SpecTracker == InitTracker /\ [][NextTracker]_vars

(***************************************************************************)
(* Valuing a snapshot (specification SpecValuation).                       *)
(***************************************************************************)
InitValuation ==
    /\ account_address = 1
    /\ underlying_perp_market = "details"
    /\ pending = <<>>
    /\ cranker_limit = 0
    /\ lastCall = NoCall
    /\ NoSubscription
    /\ lot_size_converter \in Converters
    /\ perp_account \in PerpAccounts(lot_size_converter)
    /\ perp_market_cache \in [long_funding : Fundings, short_funding : Fundings]
    /\ valuation = NotValued
    /\ is_empty = [read |-> FALSE, value |-> FALSE]
    /\ NoFundingCall
    /\ NoChainCall

\* A caller values the snapshot: the three values with one cache and one price.
Valuate ==
    /\ ~valuation.done
    /\ \E price \in Prices :
           valuation' =
               [done |-> TRUE, price |-> price,
                unsettled_funding |->
                    unsettled_funding(perp_account, lot_size_converter, perp_market_cache),
                asset_value |->
                    asset_value(perp_account, lot_size_converter, perp_market_cache, price),
                liability_value |->
                    liability_value(perp_account, lot_size_converter, perp_market_cache,
                                    price),
                current_value |->
                    current_value(perp_account, lot_size_converter, perp_market_cache,
                                  price)]
    /\ UNCHANGED <<perp_account, lot_size_converter, perp_market_cache, is_empty,
                   crankVars, trackerVars, fundingVars, chainVars>>

SpecValuation == InitValuation /\ [][Valuate]_vars

(***************************************************************************)
(* Reading PerpAccount.empty of a decoded snapshot (specification          *)
(* SpecSnapshot).                                                          *)
(***************************************************************************)
InitSnapshot ==
    /\ account_address = 1
    /\ underlying_perp_market = "details"
    /\ pending = <<>>
    /\ cranker_limit = 0
    /\ lastCall = NoCall
    /\ NoSubscription
    /\ lot_size_converter = UnitConverter
    /\ \E layout \in Layouts, open_orders \in OpenOrders, mngo_decimals \in TokenDecimals :
           perp_account = from_layout(layout, open_orders, lot_size_converter, mngo_decimals)
    /\ perp_market_cache = [long_funding |-> Zero, short_funding |-> Zero]
    /\ valuation = NotValued
    /\ is_empty = [read |-> FALSE, value |-> FALSE]
    /\ NoFundingCall
    /\ NoChainCall

ReadEmpty ==
    /\ ~is_empty.read
    /\ is_empty' = [read |-> TRUE, value |-> empty(perp_account)]
    /\ UNCHANGED <<perp_account, lot_size_converter, perp_market_cache, valuation,
                   crankVars, trackerVars, fundingVars, chainVars>>

SpecSnapshot == InitSnapshot /\ [][ReadEmpty]_vars

(***************************************************************************)
(* Funding rates from two stats snapshots (specification SpecFunding).     *)
(***************************************************************************)
InitFunding ==
    /\ account_address = 1
    /\ underlying_perp_market = "details"
    /\ pending = <<>>
    /\ cranker_limit = 0
    /\ lastCall = NoCall
    /\ NoSubscription
    /\ NoPerpAccount
    /\ NoChainCall
    /\ funding_call \in [lot_size_converter : FundingConverters,
                         oldest_stats : OldestStats, newest_stats : NewestStats]
    /\ funding_rate = NoRate

FromStatsData ==
    /\ funding_rate.status = "none"
    /\ funding_rate' = from_stats_data(funding_call.lot_size_converter,
                                       funding_call.oldest_stats, funding_call.newest_stats)
    /\ UNCHANGED <<funding_call, crankVars, trackerVars, valuationVars, chainVars>>

SpecFunding == InitFunding /\ [][FromStatsData]_vars

(***************************************************************************)
(* Rounding a list of orders to lot sizes (specification SpecChain).       *)
(***************************************************************************)
InitChain ==
    /\ account_address = 1
    /\ underlying_perp_market = "details"
    /\ pending = <<>>
    /\ cranker_limit = 0
    /\ lastCall = NoCall
    /\ NoSubscription
    /\ NoPerpAccount
    /\ NoFundingCall
    /\ chain_call \in [lot_size_converter : ChainConverters, orders : OrderLists]
    /\ chain_result = NotProcessed

\* RoundToLotSizeElement.process(context, model_state, orders)
Process ==
    /\ ~chain_result.done
    /\ chain_result' =
           [done |-> TRUE,
            new_orders |-> process(chain_call.lot_size_converter, chain_call.orders),
            orders |-> chain_call.orders]
    /\ UNCHANGED <<chain_call, crankVars, trackerVars, valuationVars, fundingVars>>

SpecChain == InitChain /\ [][Process]_vars

(***************************************************************************)
(* Direct calls of the builder (specification SpecBuilder).                *)
(***************************************************************************)
InitBuilder ==
    /\ account_address \in Addresses
    /\ underlying_perp_market \in {"None", "details"}
    /\ pending = <<>>
    /\ cranker_limit = 0
    /\ lastCall = NoCall
    /\ NoSubscription
    /\ NoPerpAccount
    /\ NoFundingCall
    /\ NoChainCall

\* The caller has looked at the outcome of its call and goes on.
Return ==
    /\ lastCall.op # "none"
    /\ lastCall' = NoCall
    /\ UNCHANGED <<account_address, underlying_perp_market, pending, cranker_limit, notCrankVars>>

BuildCrank ==
    /\ lastCall.op = "none"
    /\ \E addresses \in SeqsUpTo(Addresses, MaxAddresses), limit \in Limits :
        /\ lastCall' = Call("build_crank", addresses, limit, FALSE, TRUE,
                            build_crank_instructions(underlying_perp_market,
                                                     account_address, addresses, limit))
        /\ UNCHANGED <<account_address, underlying_perp_market, pending, cranker_limit, notCrankVars>>

BuildCancelOrder ==
    /\ lastCall.op = "none"
    /\ lastCall' = Call("build_cancel_order", <<>>, 0, FALSE, FALSE,
                        build_cancel_order_instructions(underlying_perp_market))
    /\ UNCHANGED <<account_address, underlying_perp_market, pending, cranker_limit, notCrankVars>>

BuildPlaceOrder ==
    /\ lastCall.op = "none"
    /\ lastCall' = Call("build_place_order", <<>>, 0, FALSE, FALSE,
                        build_place_order_instructions(underlying_perp_market))
    /\ UNCHANGED <<account_address, underlying_perp_market, pending, cranker_limit, notCrankVars>>

BuildCancelAllOrders ==
    /\ lastCall.op = "none"
    /\ \E limit \in Limits :
        /\ lastCall' = Call("build_cancel_all_orders", <<>>, limit, FALSE, FALSE,
                            build_cancel_all_orders_instructions(underlying_perp_market,
                                                                 limit))
        /\ UNCHANGED <<account_address, underlying_perp_market, pending, cranker_limit, notCrankVars>>

NextBuilder ==
    \/ BuildCrank
    \/ BuildCancelOrder
    \/ BuildPlaceOrder
    \/ BuildCancelAllOrders
    \/ Return

SpecBuilder == InitBuilder /\ [][NextBuilder]_vars

(***************************************************************************)
(* PerpEvent, as far as cranking reads it: a fill touches its maker and     *)
(* its taker, an out touches its owner.                                    *)
(***************************************************************************)
Fill(maker, taker) == [kind |-> "fill", accounts |-> <<maker, taker>>]

Out(owner) == [kind |-> "out", accounts |-> <<owner>>]

PerpEvents ==
    {Fill(m, t) : m \in Addresses, t \in Addresses} \cup {Out(o) : o \in Addresses}

accounts_to_crank(event) == event.accounts

RECURSIVE AccountsOf(_)
\* for event_to_crank in unprocessed_events: accounts_to_crank += its accounts
AccountsOf(events) ==
    IF events = <<>> THEN <<>>
    ELSE accounts_to_crank(Head(events)) \o AccountsOf(Tail(events))

(***************************************************************************)
(* PerpMarketOperations._build_crank.  Gives the accounts it collected,     *)
(* whether it went on to the builder, and the builder's outcome.           *)
(***************************************************************************)
\* PerpMarket.unprocessed_events reads underlying_perp_market.event_queue:
\* with no details loaded the attribute access raises.
unprocessed_events_raises(underlying) == underlying = "None"

crank_accounts(events, self_address, add_self) ==
    AccountsOf(events) \o (IF add_self THEN <<self_address>> ELSE <<>>)

\* The builder is called even when no account was collected.
_build_crank_AlwaysBuilds(underlying, self_address, events, limit, add_self) ==
    IF unprocessed_events_raises(underlying)
    THEN [accounts |-> <<>>, built |-> FALSE, result |-> Raised]
    ELSE [accounts |-> crank_accounts(events, self_address, add_self),
          built |-> TRUE,
          result |-> build_crank_instructions(underlying, self_address,
                         crank_accounts(events, self_address, add_self), limit)]

_build_crank(underlying, self_address, events, limit, add_self) ==
    IF unprocessed_events_raises(underlying)
    THEN [accounts |-> <<>>, built |-> FALSE, result |-> Raised]
    ELSE CHOOSE outcome \in
             {IF Len(accounts_to_crank_) = 0
              THEN [accounts |-> accounts_to_crank_, built |-> FALSE,
                    result |-> Returned(EmptyInstructions, FALSE)]
              ELSE [accounts |-> accounts_to_crank_, built |-> TRUE,
                    result |-> build_crank_instructions(underlying, self_address,
                                                        accounts_to_crank_, limit)] :
                  accounts_to_crank_ \in {crank_accounts(events, self_address, add_self)}} :
             TRUE

(***************************************************************************)
(* The batches PerpMarketOperations hands to execute().                    *)
(***************************************************************************)
Signers == <<Instruction("signers", <<>>, 0)>>

\* The crank instructions come before those of the call itself.
Batch_CrankFirst(parts) ==
    IF \E i \in 1..Len(parts) : parts[i].raised
    THEN Raised
    ELSE Returned(Signers \o parts[2].instructions \o parts[1].instructions
                          \o parts[3].instructions,
                  \E i \in 1..Len(parts) : parts[i].warned)

\* A batch is executed only if no builder raised on the way to it.
Batch(parts) ==
    IF \E i \in 1..Len(parts) : parts[i].raised
    THEN Raised
    ELSE Returned(Signers \o parts[1].instructions \o parts[2].instructions
                          \o parts[3].instructions,
                  \E i \in 1..Len(parts) : parts[i].warned)

NoPart == Returned(EmptyInstructions, FALSE)

(***************************************************************************)
(* The on-chain consume-events operation: it retires events in queue       *)
(* order while the accounts of the oldest one are all among those given.   *)
(***************************************************************************)
RECURSIVE ConsumeEvents(_, _)
ConsumeEvents(events, accounts) ==
    IF events = <<>> THEN <<>>
    ELSE IF Range(accounts_to_crank(Head(events))) \subseteq Range(accounts)
         THEN ConsumeEvents(Tail(events), accounts)
         ELSE events

\* execute(): every consume-events instruction of the batch acts on the queue.
Execute(events, result) ==
    IF result.raised \/ ~HasCrank(result) THEN events
    ELSE ConsumeEvents(events, CrankList(result))

(***************************************************************************)
(* Calls of PerpMarketOperations (specification Spec).                     *)
(***************************************************************************)
Init ==
    /\ account_address \in Addresses
    /\ underlying_perp_market \in {"None", "details"}
    /\ pending = <<>>
    /\ cranker_limit = 0
    /\ lastCall = NoCall
    /\ NoSubscription
    /\ NoPerpAccount
    /\ NoFundingCall
    /\ NoChainCall

\* Some other participant's trade appends an event to the market's queue.
EventArrives ==
    /\ lastCall.op = "none"
    /\ Len(pending) < MaxPending
    /\ \E event \in PerpEvents : pending' = Append(pending, event)
    /\ UNCHANGED <<account_address, underlying_perp_market, cranker_limit, lastCall, notCrankVars>>

OperationsCall(op, limit, add_self, first, crank, settle) ==
    \E first_ \in {first}, crank_ \in {crank} :
        \E result \in {Batch(<<first_, crank_.result, settle>>)} :
            /\ lastCall' = Call(op, crank_.accounts, limit, add_self,
                                crank_.built /\ ~first_.raised, result)
            /\ pending' = Execute(pending, result)
            /\ UNCHANGED <<account_address, underlying_perp_market, cranker_limit, notCrankVars>>

cancel_order ==
    /\ lastCall.op = "none"
    /\ OperationsCall("cancel_order", Decimal(DefaultCrankLimit), TRUE,
                      build_cancel_order_instructions(underlying_perp_market),
                      _build_crank(underlying_perp_market, account_address, pending,
                                   Decimal(DefaultCrankLimit), TRUE),
                      build_settle_instructions)

place_order ==
    /\ lastCall.op = "none"
    /\ \E crank_limit \in Limits \cup {Decimal(PlaceOrderCrankLimit)} :
           OperationsCall("place_order", crank_limit, TRUE,
                          build_place_order_instructions(underlying_perp_market),
                          _build_crank(underlying_perp_market, account_address, pending,
                                       crank_limit, TRUE),
                          build_settle_instructions)

settle ==
    /\ lastCall.op = "none"
    /\ OperationsCall("settle", 0, FALSE, build_settle_instructions,
                      [accounts |-> <<>>, built |-> FALSE, result |-> NoPart], NoPart)

crank ==
    /\ lastCall.op = "none"
    /\ \E limit \in Limits \cup {Decimal(DefaultCrankLimit)} :
           OperationsCall("crank", limit, FALSE, NoPart,
                          _build_crank(underlying_perp_market, account_address, pending,
                                       limit, FALSE),
                          NoPart)

Next ==
    \/ EventArrives
    \/ cancel_order
    \/ place_order
    \/ settle
    \/ crank
    \/ Return

Spec == Init /\ [][Next]_vars

(***************************************************************************)
(* A periodic cranker: crank(limit) again and again with one limit, while   *)
(* no new event arrives (specification SpecCranker).                       *)
(***************************************************************************)
InitCranker ==
    /\ account_address \in Addresses
    /\ underlying_perp_market = "details"
    /\ pending = <<>>
    /\ cranker_limit = 0
    /\ lastCall = NoCall
    /\ NoSubscription
    /\ NoPerpAccount
    /\ NoFundingCall
    /\ NoChainCall

\* Events arrive until the cranker starts; none arrives while it runs.
EventArrivesBeforeCranker ==
    /\ cranker_limit = 0
    /\ EventArrives

StartCranker ==
    /\ cranker_limit = 0
    /\ cranker_limit' \in {limit \in Limits : limit >= Decimal(1)}
    /\ UNCHANGED <<account_address, underlying_perp_market, pending, lastCall, notCrankVars>>

CrankPass ==
    /\ cranker_limit > 0
    /\ OperationsCall("crank", cranker_limit, FALSE, NoPart,
                      _build_crank(underlying_perp_market, account_address, pending,
                                   cranker_limit, FALSE),
                      NoPart)

NextCranker ==
    \/ EventArrivesBeforeCranker
    \/ StartCranker
    \/ CrankPass

SpecCranker == InitCranker /\ [][NextCranker]_vars /\ WF_vars(CrankPass)

(***************************************************************************)
(* Properties of crank assembly.                                           *)
(***************************************************************************)
NoDuplicates(list) ==
    \A i, j \in 1..Len(list) : i # j => list[i] # list[j]

\* Ascending in the order of encode_public_key_for_sorting.
AscendingByKey(list) ==
    \A i, j \in 1..Len(list) :
        i < j => KeyLess(encode_public_key_for_sorting(list[i]),
                         encode_public_key_for_sorting(list[j]))

\* The candidates of a call: the builder's own account and the addresses given.
Candidates(call) == {account_address} \cup Range(call.addresses)

\* The candidate list in insertion order: own account first, then the given
\* addresses; the rank of a candidate counts the distinct ones up to its
\* first occurrence.
InsertionOrder(call) == <<account_address>> \o call.addresses

FirstSeenRank(list, x) ==
    LET first == CHOOSE i \in 1..Len(list) :
                     list[i] = x /\ \A j \in 1..(i - 1) : list[j] # x
    IN  Cardinality({list[j] : j \in 1..first})

\* The n smallest addresses of a set, by encoding.
SmallestByKey(set, n) ==
    {x \in set :
        Cardinality({y \in set : KeyLess(encode_public_key_for_sorting(y),
                                         encode_public_key_for_sorting(x))}) < n}

\* The call went through build_crank_instructions and got instructions back.
CrankBuilt(call) == call.built /\ ~call.raised /\ HasCrank(call)

OverLimit(call) == Cardinality(Candidates(call)) * 2 > call.limit

\* C4: a crank built with add_self=true whose distinct addresses do not exceed
\* the limit lists every address of the events and the own account exactly
\* once, in ascending order of encode_public_key_for_sorting.
C4_AddSelfListComplete ==
    (CrankBuilt(lastCall) /\ lastCall.add_self /\ ~OverLimit(lastCall)) =>
        /\ Range(CrankList(lastCall)) = Candidates(lastCall)
        /\ NoDuplicates(CrankList(lastCall))
        /\ AscendingByKey(CrankList(lastCall))

\* Events [A,B,A,..] with repeats, at least three distinct addresses besides
\* the own account, and a list that insertion order would not have given.
C4_Witness ==
    /\ CrankBuilt(lastCall) /\ lastCall.add_self /\ ~OverLimit(lastCall)
    /\ lastCall.op = "place_order"
    /\ Len(lastCall.addresses) > Cardinality(Range(lastCall.addresses))
    /\ Cardinality(Candidates(lastCall)) = 4
    /\ CrankList(lastCall) # distinct_addresses(account_address, lastCall.addresses)

\* C5 as stated: over the limit, the list is the first int(limit) entries of
\* the sorted candidate list (sorting before truncation).
C5_SortedThenTruncated ==
    (CrankBuilt(lastCall) /\ OverLimit(lastCall)) =>
        Range(CrankList(lastCall)) = SmallestByKey(Candidates(lastCall), int(lastCall.limit))

\* C5 amended: over the limit, the list holds the first int(limit) candidates in
\* insertion order (own account first, then the addresses as first seen), and
\* those are then sorted: truncation happens before sorting.
C5_TruncatedThenSorted ==
    (CrankBuilt(lastCall) /\ OverLimit(lastCall)) =>
        /\ Range(CrankList(lastCall)) =
               {x \in Candidates(lastCall) :
                    FirstSeenRank(InsertionOrder(lastCall), x) <= int(lastCall.limit)}
        /\ Len(CrankList(lastCall)) = int(lastCall.limit)
        /\ AscendingByKey(CrankList(lastCall))

\* [A,B,A,C] with own account S and limit 2, where the two kept are not the
\* two smallest.
C5_Witness ==
    /\ CrankBuilt(lastCall) /\ OverLimit(lastCall)
    /\ lastCall.op = "build_crank"
    /\ lastCall.limit = Decimal(2)
    /\ Cardinality(Candidates(lastCall)) = 4
    /\ Len(lastCall.addresses) = 4
    /\ Range(CrankList(lastCall)) # SmallestByKey(Candidates(lastCall), 2)

\* C6 as stated: crank() (add_self=false) over pending events lists the own
\* account only if some pending event references it.
C6_SelfOnlyWhenRequested ==
    (CrankBuilt(lastCall) /\ lastCall.op = "crank" /\ ~lastCall.add_self) =>
        /\ (account_address \in Range(CrankList(lastCall))
               => account_address \in Range(lastCall.addresses))
        /\ (~OverLimit(lastCall)
               => Range(CrankList(lastCall)) = Range(lastCall.addresses))

\* C7: over the limit the builder does not raise, reports it, and the list has
\* exactly int(limit) entries; in every case it has at most limit entries.
C7_ThrottleIsPartialProgress ==
    (lastCall.op = "build_crank" /\ underlying_perp_market = "details") =>
        /\ CrankBuilt(lastCall)
        /\ Len(CrankList(lastCall)) * 2 <= lastCall.limit
        /\ lastCall.warned = OverLimit(lastCall)
        /\ (OverLimit(lastCall) => Len(CrankList(lastCall)) = int(lastCall.limit))

\* Over a limit with a fraction (2.5): warned, and int(limit) = 2 entries.
C7_Witness ==
    /\ lastCall.op = "build_crank" /\ CrankBuilt(lastCall)
    /\ lastCall.limit = Decimal(2) + 1
    /\ Cardinality(Candidates(lastCall)) = 3
    /\ lastCall.warned
    /\ Len(CrankList(lastCall)) = 2

\* The address lists of the same set of addresses, in any order and repetition.
SameSetInputs(addresses) ==
    {other \in SeqsUpTo(Range(addresses), MaxAddresses) :
         Range(other) = Range(addresses)}

BuildAgain(other, limit) ==
    build_crank_instructions(underlying_perp_market, account_address, other, limit)

\* C9 as stated: builds with the same own account and limit over the same set
\* of addresses give identical address lists.
C9_OrderInsensitive ==
    (lastCall.op = "build_crank" /\ CrankBuilt(lastCall)) =>
        \A other \in SameSetInputs(lastCall.addresses) :
            CrankList(BuildAgain(other, lastCall.limit)) = CrankList(lastCall)

\* C9 amended: the same, for builds whose distinct candidates (own account
\* included) do not exceed the limit.
C9_OrderInsensitiveWithinLimit ==
    (lastCall.op = "build_crank" /\ CrankBuilt(lastCall) /\ ~OverLimit(lastCall)) =>
        \A other \in SameSetInputs(lastCall.addresses) :
            CrankList(BuildAgain(other, lastCall.limit)) = CrankList(lastCall)

\* Three candidates within the limit, given in an order that is not the
\* sorted one, so that another order of the same set exists.
C9_Witness ==
    /\ lastCall.op = "build_crank" /\ CrankBuilt(lastCall) /\ ~OverLimit(lastCall)
    /\ Cardinality(Candidates(lastCall)) = 3
    /\ Cardinality(SameSetInputs(lastCall.addresses)) > 1
    /\ CrankList(lastCall) # distinct_addresses(account_address, lastCall.addresses)

BuilderCalls ==
    {"build_cancel_order", "build_place_order", "build_crank", "build_cancel_all_orders"}

\* C10: with underlying_perp_market None each of the four builders raises,
\* returns no instructions, and leaves the builder as it was.
C10_FailFast ==
    /\ [](underlying_perp_market = "None" /\ lastCall.op \in BuilderCalls
             => lastCall.raised /\ lastCall.instructions = EmptyInstructions)
    /\ [][(underlying_perp_market = "None" /\ lastCall'.op \in BuilderCalls)
             => /\ account_address' = account_address
                /\ underlying_perp_market' = underlying_perp_market]_vars

C10_Witness ==
    /\ underlying_perp_market = "None"
    /\ lastCall.op = "build_crank"
    /\ lastCall.addresses # <<>>
    /\ lastCall.raised

(***************************************************************************)
(* Progress of a periodic cranker (specification SpecCranker).             *)
(***************************************************************************)
\* C8 as stated: with any fixed limit >= 1, repeated crank passes eventually
\* retire every pending event.
C8_EventuallyRetired ==
    [](cranker_limit >= Decimal(1) => <>(pending = <<>>))

\* C8 amended: with a fixed limit >= 3 (the own account and the two accounts
\* of a fill), repeated crank passes eventually retire every pending event,
\* and every account waiting to be cranked is in the list of some pass.
C8_EventuallyRetiredFromThree ==
    /\ [](cranker_limit >= Decimal(3) => <>(pending = <<>>))
    /\ \A address \in Addresses :
           [](cranker_limit >= Decimal(3) /\ address \in Range(AccountsOf(pending))
                 => <>(CrankBuilt(lastCall) /\ address \in Range(CrankList(lastCall))))

\* A throttled pass with a limit >= 3 that retired the oldest event and left
\* a later one for the next pass.
C8_Witness ==
    /\ cranker_limit >= Decimal(3)
    /\ CrankBuilt(lastCall) /\ lastCall.warned
    /\ Len(pending) = 1
    /\ Len(lastCall.addresses) > 2

(***************************************************************************)
(* Properties of on_event's change tracker (specification SpecTracker).    *)
(***************************************************************************)
AscendingBySeqNum(events) ==
    \A i, j \in 1..Len(events) : i < j => events[i].seq_num < events[j].seq_num

\* The events a snapshot of the queue still holds.
EventsIn(queue) == {queue.slots[i] : i \in 0..(Capacity - 1)} \ {NoEvent}

\* C2: while the sequence number never moved by more than the capacity between
\* two snapshots, the unseen() outputs put together are exactly the events
\* appended after the baseline, each once, in queue order.
C2_UnseenIsExactlyOnceInOrder ==
    (splitter.created /\ lastUnseen.max_advance <= Capacity) =>
        delivered = SubSeq(history, splitter.baseline + 1,
                           splitter.tracker.last.sequence_number)

\* A baseline that already held an event, and at least three later events
\* reported over several snapshots after the ring had wrapped.
C2_Witness ==
    /\ splitter.created /\ lastUnseen.max_advance <= Capacity
    /\ splitter.baseline >= 1
    /\ Len(delivered) >= 3
    /\ Len(lastUnseen.events) < Len(delivered)
    /\ lastUnseen.events # <<>>

\* C3: when the sequence number moved by more than the capacity, unseen() gives
\* only events the new snapshot still holds, in ascending sequence order, and
\* no call gives an event that an earlier call gave.
C3_WraparoundLosesSilently ==
    /\ lastUnseen.advance > Capacity =>
           /\ Range(lastUnseen.events) \subseteq EventsIn(splitter.tracker.last)
           /\ AscendingBySeqNum(lastUnseen.events)
    /\ AscendingBySeqNum(delivered)
    /\ Range(delivered) \subseteq Range(history)

\* Events were reported, then the producer ran ahead by more than the capacity,
\* and the call after the gap reported the events still there.
C3_Witness ==
    /\ lastUnseen.advance > Capacity
    /\ lastUnseen.events # <<>>
    /\ Len(delivered) > Len(lastUnseen.events)

(***************************************************************************)
(* Properties of PerpAccount valuation (specification SpecValuation).      *)
(***************************************************************************)
\* C1: for every snapshot, cache and price, asset_value + liability_value
\* equals current_value.
C1_ValueDecomposes ==
    valuation.done =>
        DAdd(valuation.asset_value, valuation.liability_value) = valuation.current_value

AllZero(account) ==
    /\ account.base_position = Zero /\ account.quote_position = Zero
    /\ account.long_settled_funding = Zero /\ account.short_settled_funding = Zero
    /\ account.bids_quantity = Zero /\ account.asks_quantity = Zero
    /\ account.taker_base = Zero /\ account.taker_quote = Zero
    /\ account.mngo_accrued.value = Zero
    /\ account.open_orders.placed_orders = <<>>

\* C11: an all-zero snapshot with no open orders is empty and all three of its
\* values are 0, for every cache and every price.
C11_AllZeroIsWorthNothing ==
    (valuation.done /\ AllZero(perp_account)) =>
        /\ empty(perp_account)
        /\ valuation.asset_value = Zero
        /\ valuation.liability_value = Zero
        /\ valuation.current_value = Zero

C11_Witness ==
    /\ valuation.done /\ AllZero(perp_account)
    /\ valuation.price.m > 0 /\ valuation.price.e > 0
    /\ perp_market_cache.long_funding.m > 0 /\ perp_market_cache.short_funding.m > 0
    /\ lot_size_converter.quote_decimals > 0

\* The quote position in whole quote tokens plus the unsettled funding, from the
\* raw fields: (quote_position - base_position * accumulator difference) / 10^decimals.
ExpectedFunding ==
    LET selected ==
            IF perp_account.base_position.m < 0
            THEN DSub(perp_market_cache.short_funding, perp_account.short_settled_funding)
            ELSE DSub(perp_market_cache.long_funding, perp_account.long_settled_funding)
    IN  DScale10(DMul(DNeg(perp_account.base_position), selected),
                 0 - lot_size_converter.quote_decimals)

ExpectedQuote ==
    DAdd(DScale10(perp_account.quote_position, 0 - lot_size_converter.quote_decimals),
         valuation.unsettled_funding)

\* base_position * 10^(base decimals - quote decimals) * base_lot_size * price
\* in whole quote tokens.
ExpectedNotional ==
    DScale10(DMul(DMul(perp_account.base_position, lot_size_converter.base_lot_size),
                  valuation.price),
             lot_size_converter.base_decimals - 2 * lot_size_converter.quote_decimals)

\* C13: liability_value is never positive, and it is 0 when the base position is
\* not short and the quote position with unsettled funding is not negative.
C13_LiabilityIsNeverPositive ==
    valuation.done =>
        /\ valuation.liability_value.m <= 0
        /\ (perp_account.base_position.m >= 0 /\ ExpectedQuote.m >= 0) =>
               valuation.liability_value = Zero

C13_Witness ==
    /\ valuation.done
    /\ perp_account.base_position.m < 0 /\ valuation.price.m > 0
    /\ ExpectedQuote.m < 0 /\ valuation.unsettled_funding.m # 0
    /\ valuation.liability_value.m < 0

\* C14: asset_value is the base notional when the base position is long (else 0)
\* plus the quote position with unsettled funding when that is positive (else
\* 0), and is never negative.
C14_AssetIsSignGated ==
    valuation.done =>
        /\ valuation.asset_value =
               DAdd(IF perp_account.base_position.m > 0 THEN ExpectedNotional ELSE Zero,
                    IF ExpectedQuote.m > 0 THEN ExpectedQuote ELSE Zero)
        /\ valuation.asset_value.m >= 0

C14_Witness ==
    /\ valuation.done
    /\ perp_account.base_position.m > 0 /\ valuation.price.m > 0
    /\ valuation.price.e > 0 /\ lot_size_converter.quote_decimals > 0
    /\ lot_size_converter.base_decimals > 0
    /\ ExpectedQuote.m > 0 /\ valuation.unsettled_funding.m # 0

\* C17: unsettled_funding takes the short accumulator when base_position < 0 and
\* the long one otherwise, multiplies the difference to the settled checkpoint
\* by base_position, negates and scales to quote decimals; it is 0 for a zero
\* base_position and when accumulator and checkpoint are equal.
C17_FundingBySignOfPosition ==
    valuation.done =>
        /\ valuation.unsettled_funding = ExpectedFunding
        /\ perp_account.base_position = Zero => valuation.unsettled_funding = Zero
        /\ (/\ perp_account.base_position.m < 0
            /\ perp_market_cache.short_funding = perp_account.short_settled_funding) =>
               valuation.unsettled_funding = Zero
        /\ (/\ perp_account.base_position.m >= 0
            /\ perp_market_cache.long_funding = perp_account.long_settled_funding) =>
               valuation.unsettled_funding = Zero

C17_Witness ==
    /\ valuation.done
    /\ perp_account.base_position.m < 0
    /\ perp_market_cache.short_funding # perp_account.short_settled_funding
    /\ perp_market_cache.long_funding = perp_account.long_settled_funding
    /\ lot_size_converter.quote_decimals > 0
    /\ valuation.unsettled_funding.m < 0

(***************************************************************************)
(* Properties of PerpAccount.empty (specification SpecSnapshot).           *)
(***************************************************************************)
\* C12: empty is true exactly when the positions, the settled fundings and the
\* accrual of the decoded buffer are zero and no order slot is resting.
C12_EmptyIffNothingHeld ==
    is_empty.read =>
        (is_empty.value <=>
            /\ perp_account.base_position.m = 0
            /\ perp_account.quote_position.m = 0
            /\ perp_account.long_settled_funding.m = 0
            /\ perp_account.short_settled_funding.m = 0
            /\ perp_account.mngo_accrued.value.m = 0
            /\ Len(perp_account.open_orders.placed_orders) = 0)

C12_Witness ==
    /\ is_empty.read /\ ~is_empty.value
    /\ perp_account.base_position = Zero /\ perp_account.quote_position = Zero
    /\ perp_account.long_settled_funding = Zero /\ perp_account.short_settled_funding = Zero
    /\ perp_account.open_orders.placed_orders = <<>>
    /\ perp_account.mngo_accrued.token_decimals > 0

(***************************************************************************)
(* Properties of FundingRate.from_stats_data (specification SpecFunding).  *)
(***************************************************************************)
SameAccumulators ==
    /\ funding_call.oldest_stats.shortFunding = funding_call.newest_stats.shortFunding
    /\ funding_call.oldest_stats.longFunding = funding_call.newest_stats.longFunding

\* C15: with identical short and long accumulators in both snapshots and a
\* non-zero newest oracle price and lot size, the rate is exactly 0.
C15_SameAccumulatorsGiveZeroRate ==
    (/\ funding_rate.status # "none"
     /\ SameAccumulators
     /\ funding_call.newest_stats.baseOraclePrice # Zero
     /\ funding_call.lot_size_converter.lot_size # Zero) =>
        /\ funding_rate.status = "returned"
        /\ funding_rate.rate = Zero

C15_Witness ==
    /\ funding_rate.status = "returned"
    /\ SameAccumulators
    /\ funding_call.oldest_stats.shortFunding # funding_call.oldest_stats.longFunding
    /\ funding_call.oldest_stats.baseOraclePrice # funding_call.newest_stats.baseOraclePrice
    /\ funding_call.newest_stats.openInterest # Zero
    /\ funding_call.lot_size_converter.quote_decimals > 0

(***************************************************************************)
(* Properties of the rounding (specification SpecChain).                   *)
(***************************************************************************)
DLeq(a, b) == DSub(a, b).m <= 0

\* value is a whole number of steps
IsMultipleOf(value, step) ==
    IF value.e >= step.e
    THEN value.m % (step.m * Pow10(value.e - step.e)) = 0
    ELSE (value.m * Pow10(step.e - value.e)) % step.m = 0

TruncatesTo(value, rounded, step) ==
    /\ DLeq(rounded, value)
    /\ IsMultipleOf(rounded, step)
    /\ DSub(value, rounded).m * Pow10(step.e) < step.m * Pow10(DSub(value, rounded).e)

\* C16: round_base and round_quote of every x >= 0 are <= x, are multiples of
\* the lot size, and rounding them again changes nothing.
C16_RoundingTruncates ==
    chain_result.done =>
        \A i \in 1..Len(chain_call.orders) :
            LET converter == chain_call.lot_size_converter
                order == chain_call.orders[i]
            IN  /\ TruncatesTo(order.quantity, round_base(converter, order.quantity),
                               base_step(converter))
                /\ round_base(converter, round_base(converter, order.quantity))
                       = round_base(converter, order.quantity)
                /\ TruncatesTo(order.price, round_quote(converter, order.price),
                               tick_size(converter))
                /\ round_quote(converter, round_quote(converter, order.price))
                       = round_quote(converter, order.price)

C16_Witness ==
    /\ chain_result.done
    /\ \E i \in 1..Len(chain_call.orders) :
           /\ chain_result.new_orders # <<>>
           /\ chain_result.new_orders[1].id = i
           /\ chain_result.new_orders[1].price # chain_call.orders[i].price
           /\ chain_result.new_orders[1].quantity # chain_call.orders[i].quantity

RoundedOrder(i) ==
    Order(chain_call.orders[i].id,
          round_quote(chain_call.lot_size_converter, chain_call.orders[i].price),
          round_base(chain_call.lot_size_converter, chain_call.orders[i].quantity))

Survives(i) == RoundedOrder(i).price.m # 0 /\ RoundedOrder(i).quantity.m # 0

\* C19: process returns, in input order, exactly the orders whose rounded price
\* and rounded quantity are both non-zero, each with its rounded values (an
\* aligned order as it was), and leaves the input orders as they were.
C19_ProcessRoundsAndFilters ==
    chain_result.done =>
        /\ chain_result.orders = chain_call.orders
        /\ Len(chain_result.new_orders)
               = Cardinality({i \in 1..Len(chain_call.orders) : Survives(i)})
        /\ \A i \in 1..Len(chain_call.orders) :
               Survives(i) =>
                   LET k == Cardinality({j \in 1..i : Survives(j)})
                   IN  /\ chain_result.new_orders[k] = RoundedOrder(i)
                       /\ (/\ RoundedOrder(i).price = chain_call.orders[i].price
                           /\ RoundedOrder(i).quantity = chain_call.orders[i].quantity) =>
                              chain_result.new_orders[k] = chain_call.orders[i]

C19_Witness ==
    /\ chain_result.done
    /\ Len(chain_call.orders) = 2
    /\ ~Survives(1) /\ Survives(2)
    /\ RoundedOrder(1).price # Zero
    /\ RoundedOrder(2) # chain_call.orders[2]

(***************************************************************************)
(* Properties of the batches of PerpMarketOperations (specification Spec). *)
(***************************************************************************)
OperationsCalls == {"place_order", "cancel_order", "crank", "settle"}

NamesOf(call) == [i \in 1..Len(call.instructions) |-> call.instructions[i].name]

\* signers, then the call's own instructions, then the crank, then settle
\* (build_settle_instructions gives no instruction).
ExpectedNames(call) ==
    <<"signers">>
        \o (IF call.op = "place_order" THEN <<"place_perp_order">>
            ELSE IF call.op = "cancel_order" THEN <<"cancel_perp_order">>
            ELSE <<>>)
        \o (IF call.built THEN <<"consume_events">> ELSE <<>>)

CrankNeverFirst(call) ==
    \A i, j \in 1..Len(call.instructions) :
        (/\ call.instructions[i].name = "consume_events"
         /\ call.instructions[j].name \in {"place_perp_order", "cancel_perp_order"}) => j < i

IsFill(event) == event.kind = "fill"

\* C20: on_fill's handler gets each fill event the tracker reports, once, in the
\* order reported, never an out event, and nothing from the snapshot loaded
\* when the subscription was created.
C20_FillsOnlyOnceInOrder ==
    splitter.handler = "_fill_filter" =>
        /\ filled = SelectSeq(delivered, IsFill)
        /\ \A i \in 1..Len(filled) :
               /\ filled[i].kind = "fill"
               /\ filled[i].seq_num > splitter.baseline

C20_Witness ==
    /\ splitter.handler = "_fill_filter"
    /\ splitter.baseline >= 1
    /\ history[1].kind = "fill"
    /\ Len(filled) >= 2
    /\ Len(delivered) > Len(filled)
    /\ delivered[1].kind = "out"

(***************************************************************************)
(* Properties of PerpMarketOperations._build_crank (specification Spec).   *)
(***************************************************************************)
CrankingCalls == {"place_order", "cancel_order", "crank"}

\* C21: on a market whose events can be read, a call that finds no pending
\* event and has add_self false does not call build_crank_instructions and
\* executes the signers alone; with a pending event or add_self true a
\* consume-events instruction is built.
C21_CrankOnlyWhenThereIsWork ==
    [][(/\ lastCall.op = "none"
        /\ lastCall'.op \in CrankingCalls
        /\ underlying_perp_market = "details") =>
           IF pending = <<>> /\ ~lastCall'.add_self
           THEN /\ ~lastCall'.built
                /\ ~lastCall'.raised
                /\ lastCall'.instructions = Signers
           ELSE /\ lastCall'.built
                /\ ~lastCall'.raised
                /\ HasCrank(lastCall')]_vars

C21_Witness ==
    /\ lastCall.op = "crank"
    /\ underlying_perp_market = "details"
    /\ pending = <<>>
    /\ lastCall.addresses = <<>>
    /\ ~lastCall.built
    /\ lastCall.instructions = Signers

(***************************************************************************)
(* Which accounts a throttled crank keeps (specification Spec).            *)
(***************************************************************************)
\* The first pending event, oldest first, that names the address.
FirstEventOf(events, x) ==
    CHOOSE i \in 1..Len(events) :
        /\ x \in Range(accounts_to_crank(events[i]))
        /\ \A j \in 1..(i - 1) : x \notin Range(accounts_to_crank(events[j]))

\* The addresses the pending events name, other than the own account.
OthersIn(events) ==
    UNION {Range(accounts_to_crank(events[i])) : i \in 1..Len(events)} \ {account_address}

\* How many other addresses are first named before x or with it, in the order
\* the events name them.
RankAmongOthers(events, x) ==
    LET flat == AccountsOf(events)
        first == CHOOSE i \in 1..Len(flat) :
                     flat[i] = x /\ \A j \in 1..(i - 1) : flat[j] # x
    IN  Cardinality({flat[j] : j \in 1..first} \ {account_address})

\* C22: over a limit >= 1 the consume-events instruction names the own account
\* and the first int(limit) - 1 other addresses in pending-event order; no
\* address first named by a later event is kept while one first named by an
\* earlier event is left out.
C22_TruncationKeepsTheHead ==
    [][(/\ lastCall.op = "none"
        /\ lastCall'.op \in CrankingCalls
        /\ CrankBuilt(lastCall')
        /\ OverLimit(lastCall')
        /\ lastCall'.limit >= Decimal(1)) =>
           LET kept == Range(CrankList(lastCall'))
           IN  /\ kept = {account_address}
                         \cup {x \in OthersIn(pending) :
                                  RankAmongOthers(pending, x) <= int(lastCall'.limit) - 1}
               /\ \A x \in kept \ {account_address}, y \in OthersIn(pending) \ kept :
                      FirstEventOf(pending, x) <= FirstEventOf(pending, y)]_vars

C22_Witness ==
    /\ lastCall.op = "crank"
    /\ CrankBuilt(lastCall)
    /\ OverLimit(lastCall)
    /\ int(lastCall.limit) = 2
    /\ Cardinality(Candidates(lastCall)) = 4
    /\ account_address \in Range(CrankList(lastCall))
    /\ lastCall.addresses[1] \in Range(CrankList(lastCall))
    /\ Range(CrankList(lastCall)) # SmallestByKey(Candidates(lastCall), 2)

(***************************************************************************)
(* What PerpAccount.empty does not read (specification SpecSnapshot).      *)
(***************************************************************************)
\* The snapshot from_layout gives for the same buffer with other reserved
\* sizes and taker fills.
WithTakerBase(account, converter, taker_base) ==
    [account EXCEPT
        !.taker_base = taker_base,
        !.base_token_value =
            InstrumentValue(converter.base_decimals,
                shift_to_decimals(converter.base_decimals,
                    DMul(DAdd(account.base_position, taker_base),
                         converter.base_lot_size)))]

WithReserved(account, bids, asks, taker_quote) ==
    [account EXCEPT
        !.bids_quantity = bids, !.asks_quantity = asks, !.taker_quote = taker_quote]

\* C23: snapshots that differ only in bids_quantity, asks_quantity, taker_base
\* and taker_quote report the same empty; one with such fields set and all
\* else zero and no open orders is reported empty.
C23_EmptyIgnoresReserved ==
    is_empty.read =>
        /\ \A taker_base \in Quantities :
               LET other == WithTakerBase(perp_account, lot_size_converter, taker_base)
               IN  \A bids, asks, taker_quote \in Quantities :
                       empty(WithReserved(other, bids, asks, taker_quote)) = is_empty.value
        /\ (/\ perp_account.base_position = Zero
            /\ perp_account.quote_position = Zero
            /\ perp_account.long_settled_funding = Zero
            /\ perp_account.short_settled_funding = Zero
            /\ perp_account.mngo_accrued.value = Zero
            /\ perp_account.open_orders.placed_orders = <<>>) => is_empty.value

C23_Witness ==
    /\ is_empty.read /\ is_empty.value
    /\ perp_account.bids_quantity # Zero
    /\ perp_account.asks_quantity # Zero
    /\ perp_account.taker_base # Zero
    /\ perp_account.taker_quote # Zero
    /\ perp_account.base_token_value.value # Zero

=============================================================================
